---------------------------- MODULE Spec2Model ----------------------------
(***************************************************************************)
(* A model of the Breakout game of src/main.py: the frame handler          *)
(* BreakOut.update, the collision pass (Collision.check and the GameLogic  *)
(* callbacks), the motion updates (Paddle.update, Ball.update) and the     *)
(* restart (a new GameLogic, whose constructor calls reset and registers   *)
(* its callbacks on the same ball and dead zone).                          *)
(*                                                                         *)
(* Numbers.  ball.x and ball.dx become Python floats at the first paddle   *)
(* hit: dx = offset * 5 = (ball.x - (paddle.x + 30.0)) / 30.0 * 5.  They   *)
(* are kept here as fixed-point numbers, in units of 1/Unit pixel, with    *)
(* Unit = 6^Prec; a paddle hit whose result is not a multiple of 1/Unit is *)
(* outside the model (guard Representable).  While ball.dx is a whole      *)
(* number the floats of the program are exactly the numbers kept here (for *)
(* a distance to the paddle centre that is a multiple of 6 the float       *)
(* expression gives exactly the whole number).  Once ball.dx has a         *)
(* fraction the floats are the numbers kept here up to rounding, so a      *)
(* comparison of the program agrees with the comparison made here unless   *)
(* the two sides are equal here; the frames with such a comparison are     *)
(* outside the model (guard FloatSafe).  Everything else (ball.y, ball.dy, *)
(* the paddle, the blocks, the score) is an integer in the program and an  *)
(* integer here, in pixels.                                                *)
(***************************************************************************)
EXTENDS Integers, Sequences, FiniteSets

VARIABLES
    ball,       \* Ball: [x, dx] in 1/Unit pixel, [y, dy] in pixels
    paddle,     \* Paddle: [x, y] in pixels
    blocks,     \* Block.active of each block, in creation order
    score,      \* Score.value
    logics,     \* game_over of every GameLogic constructed so far;
                \* BreakOut.logic is the last one
    callbacks,  \* Collision.callbacks of the ball and of the dead zone
    ticks,      \* frames played since the last reset (bounds Spec)
    cursor,     \* frames of the recorded session consumed (ReplaySpec)
    probe       \* arguments and result of a function applied on its own
                \* (AabbSpec, InputSpec); NoProbe in the game

gvars == <<ball, paddle, blocks, score, logics, callbacks>>
vars == <<ball, paddle, blocks, score, logics, callbacks, ticks, cursor, probe>>

---------------------------------------------------------------------------
(* Bounds of the model *)

\* frames played per game
MaxTicks == 95
\* ball.x and ball.dx are multiples of 6^-Prec pixel
Prec == 1
\* GameLogic objects constructed (restarts + 1)
MaxLogics == 2

Unit == 6 ^ Prec

---------------------------------------------------------------------------
(* Program constants *)

ScreenWidth == 600
ScreenHeight == 400
PaddleStartX == 270
PaddleStartY == 350
PaddleWidth == 60
PaddleHeight == 10
PaddleSpeed == 8
BallStartX == 300
BallStartY == 300
BallStartDx == 4
BallStartDy == -4
BallRadius == 4
BallSize == BallRadius * 2
BlockWidth == 50
BlockHeight == 20
BlockRows == 5
BlockCols == 10
BlockPitchX == 55
BlockPitchY == 25
BlockLeft == 25
BlockTop == 50
DeadZoneHeight == 5
BlockPoints == 100
MaxOffsetSpeed == 5

NumBlocks == BlockRows * BlockCols

\* create_blocks: row-major, block i (1-based) is row (i-1) \div 10, col (i-1) % 10
create_blocks ==
    [i \in 1..NumBlocks |->
        [x |-> ((i - 1) % BlockCols) * BlockPitchX + BlockLeft,
         y |-> ((i - 1) \div BlockCols) * BlockPitchY + BlockTop]]

---------------------------------------------------------------------------
(* Entities and their bounding rectangles (x, width in 1/Unit pixel) *)

PaddleEnt == [kind |-> "Paddle", idx |-> 0]
BallEnt == [kind |-> "Ball", idx |-> 0]
DeadZoneEnt == [kind |-> "DeadZone", idx |-> 0]
BlockEnt(i) == [kind |-> "Block", idx |-> i]

\* BreakOut.collisions: paddle, ball, dead zone, then the blocks
Collisions ==
    <<PaddleEnt, BallEnt, DeadZoneEnt>> \o [i \in 1..NumBlocks |-> BlockEnt(i)]

\* The world a tick works on: the mutable fields of all objects.
World ==
    [ball |-> ball, paddle |-> paddle, blocks |-> blocks, score |-> score,
     logics |-> logics]

Rect(e, w) ==
    CASE e.kind = "Paddle" ->
            [x |-> w.paddle.x * Unit, y |-> w.paddle.y,
             width |-> PaddleWidth * Unit, height |-> PaddleHeight]
      [] e.kind = "Ball" ->
            [x |-> w.ball.x, y |-> w.ball.y,
             width |-> BallSize * Unit, height |-> BallSize]
      [] e.kind = "DeadZone" ->
            [x |-> 0, y |-> ScreenHeight - DeadZoneHeight,
             width |-> ScreenWidth * Unit, height |-> DeadZoneHeight]
      [] e.kind = "Block" ->
            [x |-> create_blocks[e.idx].x * Unit, y |-> create_blocks[e.idx].y,
             width |-> BlockWidth * Unit, height |-> BlockHeight]

\* the test with the boundaries included
check_aabb_collision_closed(a, b) ==
    /\ a.x <= b.x + b.width
    /\ a.x + a.width >= b.x
    /\ a.y <= b.y + b.height
    /\ a.y + a.height >= b.y

\* Collision.check_aabb_collision
check_aabb_collision(a, b) ==
    /\ a.x < b.x + b.width
    /\ a.x + a.width > b.x
    /\ a.y < b.y + b.height
    /\ a.y + a.height > b.y

Overlaps(e1, e2, w) == check_aabb_collision(Rect(e1, w), Rect(e2, w))

---------------------------------------------------------------------------
(* GameLogic *)

\* the offset measured from the paddle's left edge instead of its centre
PaddleDxFromEdge(w) ==
    ((w.ball.x - w.paddle.x * Unit) * MaxOffsetSpeed) \div (PaddleWidth \div 2)

\* offset * 5, offset = (ball.x - (paddle.x + width / 2)) / (width / 2),
\* in 1/Unit pixel; exact when Representable
PaddleDx(w) ==
    ((w.ball.x - (w.paddle.x * Unit + (PaddleWidth * Unit) \div 2))
        * MaxOffsetSpeed) \div (PaddleWidth \div 2)

Representable(w) ==
    ((w.ball.x - (w.paddle.x * Unit + (PaddleWidth * Unit) \div 2))
        * MaxOffsetSpeed) % (PaddleWidth \div 2) = 0

\* GameLogic.on_game_over of the GameLogic object `owner`
on_game_over(w, owner) == [w EXCEPT !.logics[owner] = TRUE]

\* GameLogic.on_paddle_collision
on_paddle_collision(w, owner, other) ==
    IF other.kind = "Paddle"
    THEN [w EXCEPT !.ball.dy = -@, !.ball.dx = PaddleDx(w)]
    ELSE w

\* on_block_collision without the test of other.active
on_block_collision_any(w, owner, other) ==
    IF other.kind = "Block"
    THEN [w EXCEPT !.blocks[other.idx] = FALSE,
                   !.ball.dy = -@,
                   !.score = @ + BlockPoints]
    ELSE w

\* on_block_collision that bounces off inactive blocks too
on_block_collision_bounce_inactive(w, owner, other) ==
    IF other.kind = "Block"
    THEN IF w.blocks[other.idx]
         THEN LET w1 == [w EXCEPT !.blocks[other.idx] = FALSE,
                                  !.ball.dy = -@,
                                  !.score = @ + BlockPoints]
              IN  IF \A i \in 1..NumBlocks : ~w1.blocks[i]
                  THEN on_game_over(w1, owner)
                  ELSE w1
         ELSE [w EXCEPT !.ball.dy = -@]
    ELSE w

\* GameLogic.on_block_collision
on_block_collision(w, owner, other) ==
    IF other.kind = "Block" /\ w.blocks[other.idx]
    THEN LET w1 == [w EXCEPT !.blocks[other.idx] = FALSE,
                             !.ball.dy = -@,
                             !.score = @ + BlockPoints]
         IN  IF \A i \in 1..NumBlocks : ~w1.blocks[i]
             THEN on_game_over(w1, owner)
             ELSE w1
    ELSE w

\* on_dead_zone_collision testing for the wrong partner
on_dead_zone_collision_paddle(w, owner, other) ==
    IF other.kind = "Paddle" THEN on_game_over(w, owner) ELSE w

\* on_dead_zone_collision without the test of other
on_dead_zone_collision_any(w, owner, other) == on_game_over(w, owner)

\* GameLogic.on_dead_zone_collision
on_dead_zone_collision(w, owner, other) ==
    IF other.kind = "Ball" THEN on_game_over(w, owner) ELSE w

\* A registered callback is a bound method: the function and its GameLogic.
Call(cb, w, other) ==
    CASE cb.fn = "on_paddle_collision" -> on_paddle_collision(w, cb.owner, other)
      [] cb.fn = "on_block_collision" -> on_block_collision(w, cb.owner, other)
      [] cb.fn = "on_dead_zone_collision" -> on_dead_zone_collision(w, cb.owner, other)

\* reset that leaves the blocks as they are
reset_keeps_blocks(w, owner) ==
    [w EXCEPT !.score = 0,
              !.ball = [x |-> BallStartX * Unit, y |-> BallStartY,
                        dx |-> BallStartDx * Unit, dy |-> BallStartDy],
              !.paddle.y = PaddleStartY,
              !.logics[owner] = FALSE]

\* reset that serves the ball away from the side it was last moving to
reset_serves_alternately(w, owner) ==
    [w EXCEPT !.score = 0,
              !.ball = [x |-> BallStartX * Unit, y |-> BallStartY,
                        dx |-> IF w.ball.dx > 0 THEN -BallStartDx * Unit
                               ELSE BallStartDx * Unit,
                        dy |-> BallStartDy],
              !.paddle.y = PaddleStartY,
              !.blocks = [i \in 1..NumBlocks |-> TRUE],
              !.logics[owner] = FALSE]

\* GameLogic.reset: the paddle's x is not touched
reset(w, owner) ==
    [w EXCEPT !.score = 0,
              !.ball = [x |-> BallStartX * Unit, y |-> BallStartY,
                        dx |-> BallStartDx * Unit, dy |-> BallStartDy],
              !.paddle.y = PaddleStartY,
              !.blocks = [i \in 1..NumBlocks |-> TRUE],
              !.logics[owner] = FALSE]

\* ball.listen / dead_zone.listen in GameLogic.__init__
listen(cbs, owner) ==
    [ball |-> cbs.ball \o <<[fn |-> "on_paddle_collision", owner |-> owner],
                            [fn |-> "on_block_collision", owner |-> owner]>>,
     dead_zone |-> cbs.dead_zone
                    \o <<[fn |-> "on_dead_zone_collision", owner |-> owner]>>]

---------------------------------------------------------------------------
(* Collision.check *)

CallbacksOf(e, cbs) ==
    CASE e.kind = "Ball" -> cbs.ball
      [] e.kind = "DeadZone" -> cbs.dead_zone
      [] OTHER -> <<>>

\* for callback in self.callbacks: callback(other)
RECURSIVE RunCallbacks(_, _, _, _)
RunCallbacks(cbl, k, other, w) ==
    IF k > Len(cbl) THEN w
    ELSE RunCallbacks(cbl, k + 1, other, Call(cbl[k], w, other))

\* The others `self` overlaps, in the order of BreakOut.collisions.  The test
\* reads x, y, width and height only, which no callback changes, so testing
\* every other before the first callback runs selects the same others as
\* the loop's test of each other in turn.
Touching(self, w) == SelectSeq(Collisions, LAMBDA o : Overlaps(self, o, w))

\* for other in collisions: if self.check_aabb_collision(other): ...
RECURSIVE CheckFrom(_, _, _, _)
CheckFrom(others, cbl, i, w) ==
    IF i > Len(others) THEN w
    ELSE CheckFrom(others, cbl, i + 1, RunCallbacks(cbl, 1, others[i], w))

\* Collision.check
check(self, cbs, w) == CheckFrom(Touching(self, w), CallbacksOf(self, cbs), 1, w)

\* The others that check(self) passes to self's callbacks, in order.
Reported(self, cbs, w) ==
    IF CallbacksOf(self, cbs) = <<>> THEN <<>> ELSE Touching(self, w)

\* The entities of BreakOut.collisions that have a callback registered, in
\* order; check on any other entity runs an empty callback loop.
Listeners(cbs) == SelectSeq(Collisions, LAMBDA e : CallbacksOf(e, cbs) # <<>>)

\* for col in self.collisions: col.check(self.collisions)
RECURSIVE CollisionPassFrom(_, _, _, _)
CollisionPassFrom(ls, i, cbs, w) ==
    IF i > Len(ls) THEN w
    ELSE CollisionPassFrom(ls, i + 1, cbs, check(ls[i], cbs, w))

CollisionPass(cbs, w) == CollisionPassFrom(Listeners(cbs), 1, cbs, w)

---------------------------------------------------------------------------
(* Motion updates *)

\* direction with D (right) tested first
direction_right_first(left, right) == IF right THEN 1 ELSE IF left THEN -1 ELSE 0

\* Input.direction: A (left) is tested first
direction(left, right) == IF left THEN -1 ELSE IF right THEN 1 ELSE 0

Min(a, b) == IF a < b THEN a ELSE b
Max(a, b) == IF a > b THEN a ELSE b

\* Paddle.update without the clamp
PaddleUpdateNoClamp(p, dir) == [p EXCEPT !.x = p.x + dir * PaddleSpeed]

\* Paddle.update
PaddleUpdate(p, dir) ==
    [p EXCEPT !.x = Max(0, Min(p.x + dir * PaddleSpeed, ScreenWidth - PaddleWidth))]

\* Ball.update with a top bounce that halves the vertical speed
BallUpdateDampedTop(b) ==
    LET x1 == b.x + b.dx
        y1 == b.y + b.dy
    IN  [x |-> x1,
         y |-> y1,
         dx |-> IF x1 < BallRadius * Unit \/ x1 > (ScreenWidth - BallRadius) * Unit
                THEN -b.dx ELSE b.dx,
         dy |-> IF y1 < BallRadius THEN -(b.dy \div 2) ELSE b.dy]

\* Ball.update: the wall tests compare x and y with the radius
BallUpdate(b) ==
    LET x1 == b.x + b.dx
        y1 == b.y + b.dy
    IN  [x |-> x1,
         y |-> y1,
         dx |-> IF x1 < BallRadius * Unit \/ x1 > (ScreenWidth - BallRadius) * Unit
                THEN -b.dx ELSE b.dx,
         dy |-> IF y1 < BallRadius THEN -b.dy ELSE b.dy]

\* for obj in self.game_objects: obj.update()
MotionUpdate(w, dir) ==
    [w EXCEPT !.paddle = PaddleUpdate(w.paddle, dir), !.ball = BallUpdate(w.ball)]

---------------------------------------------------------------------------
(* BreakOut.update *)

GameOver == logics[Len(logics)]
Playing == ~GameOver

\* the motion updates before the collision pass
PlayResultMoveFirst(cbs, w, dir) == CollisionPass(cbs, MotionUpdate(w, dir))

\* the body of update after the game_over test
PlayResult(cbs, w, dir) == MotionUpdate(CollisionPass(cbs, w), dir)

\* ball.dx has a fraction: ball.x and ball.dx of the program are floats
\* that need not be exactly the numbers kept here
Inexact(b) == b.dx % Unit # 0

\* the x test of check_aabb_collision between the ball and e compares
\* equal numbers, and the y test does not settle the result
XTie(e, w) ==
    LET a == Rect(BallEnt, w)
        b == Rect(e, w)
    IN  /\ a.x = b.x + b.width \/ a.x + a.width = b.x
        /\ a.y < b.y + b.height
        /\ a.y + a.height > b.y

\* no comparison of the frame on an inexact ball.x is between equal
\* numbers (the overlap tests of the collision pass, whose box edges are
\* whole pixels, and the wall tests of Ball.update), and the frame does not
\* give an inexact ball a whole dx.  A ball that is exact and not on the
\* paddle is exact after the pass.
FloatSafe(cbs, w) ==
    (Inexact(w.ball) \/ Overlaps(BallEnt, PaddleEnt, w)) =>
        LET b1 == CollisionPass(cbs, w).ball
            x1 == b1.x + b1.dx
        IN  /\ Inexact(w.ball) => Inexact(b1)
            /\ (Inexact(w.ball) /\ w.ball.x % Unit = 0) =>
                    \A i \in 1..Len(Collisions) :
                        Collisions[i] # BallEnt => ~XTie(Collisions[i], w)
            /\ Inexact(b1) =>
                /\ x1 # BallRadius * Unit
                /\ x1 # (ScreenWidth - BallRadius) * Unit

SetWorld(w) ==
    /\ ball' = w.ball
    /\ paddle' = w.paddle
    /\ blocks' = w.blocks
    /\ score' = w.score
    /\ logics' = w.logics

\* not game over: the collision pass, then the motion updates
Play(left, right) ==
    /\ Playing
    /\ Overlaps(BallEnt, PaddleEnt, World) => Representable(World)
    /\ FloatSafe(callbacks, World)
    /\ SetWorld(PlayResult(callbacks, World, direction(left, right)))
    /\ UNCHANGED callbacks

\* game over, R not pressed, and no return
IdleFallsThrough ==
    /\ GameOver
    /\ SetWorld(PlayResult(callbacks, World, 0))
    /\ UNCHANGED callbacks

\* game over, R not pressed: return
Idle ==
    /\ GameOver
    /\ UNCHANGED gvars

\* self.logic = GameLogic(...): the constructor sets game_over and resets
NewGameLogic(w) ==
    reset([w EXCEPT !.logics = Append(@, FALSE)], Len(w.logics) + 1)

\* game over, R pressed
Restart ==
    /\ GameOver
    /\ SetWorld(NewGameLogic(World))
    /\ callbacks' = listen(callbacks, Len(logics) + 1)

NoProbe == [fn |-> "none"]

\* the objects as BreakOut.__init__ leaves them
Constructed ==
    /\ ball = [x |-> BallStartX * Unit, y |-> BallStartY,
               dx |-> BallStartDx * Unit, dy |-> BallStartDy]
    /\ paddle = [x |-> PaddleStartX, y |-> PaddleStartY]
    /\ blocks = [i \in 1..NumBlocks |-> TRUE]
    /\ score = 0
    /\ logics = <<FALSE>>
    /\ callbacks = listen([ball |-> <<>>, dead_zone |-> <<>>], 1)
    /\ ticks = 0
    /\ cursor = 0

Init == Constructed /\ probe = NoProbe

---------------------------------------------------------------------------
(* Spec: every frame polls any key state; bounded by MaxTicks frames per   *)
(* game and MaxLogics GameLogic objects.                                   *)

PlayTick(left, right) ==
    /\ ticks < MaxTicks
    /\ Play(left, right)
    /\ ticks' = ticks + 1
    /\ UNCHANGED <<cursor, probe>>

IdleTick ==
    /\ Idle
    /\ UNCHANGED <<ticks, cursor, probe>>

RestartTick ==
    /\ Len(logics) < MaxLogics
    /\ Restart
    /\ ticks' = 0
    /\ UNCHANGED <<cursor, probe>>

Next ==
    \/ \E left \in BOOLEAN, right \in BOOLEAN : PlayTick(left, right)
    \/ IdleTick
    \/ RestartTick

Spec == Init /\ [][Next]_vars

---------------------------------------------------------------------------
(* ReplaySpec: the frames poll the keys of one recorded session, one entry *)
(* per frame: "A" (left held), "D" (right held), "R" (restart pressed),    *)
(* "N" (no key).  The session clears all blocks in the first game, waits a *)
(* frame, restarts, loses the second game with the paddle at rest,         *)
(* restarts, and clears all blocks again in the third game.  Every paddle  *)
(* hit of the session leaves ball.dx a whole number.                       *)

\* the session as runs <<key, number of consecutive frames>>
KeyRuns == <<
    <<"N", 46>>, <<"D", 31>>, <<"N", 2>>, <<"D", 1>>, <<"A", 1>>,
    <<"N", 1>>, <<"A", 2>>, <<"N", 64>>, <<"A", 37>>, <<"D", 1>>,
    <<"N", 68>>, <<"D", 19>>, <<"A", 2>>, <<"D", 3>>, <<"N", 87>>,
    <<"A", 12>>, <<"N", 175>>, <<"D", 11>>, <<"A", 2>>, <<"N", 2>>,
    <<"D", 1>>, <<"N", 200>>, <<"A", 14>>, <<"N", 286>>, <<"D", 7>>,
    <<"N", 189>>, <<"A", 24>>, <<"D", 1>>, <<"N", 2>>, <<"A", 1>>,
    <<"N", 57>>, <<"D", 32>>, <<"N", 1>>, <<"D", 2>>, <<"N", 158>>,
    <<"D", 14>>, <<"N", 111>>, <<"R", 1>>, <<"N", 89>>, <<"R", 1>>,
    <<"N", 73>>, <<"D", 4>>, <<"N", 1>>, <<"A", 1>>, <<"D", 1>>,
    <<"A", 1>>, <<"N", 1>>, <<"A", 2>>, <<"N", 55>>, <<"A", 46>>,
    <<"N", 1>>, <<"A", 1>>, <<"D", 1>>, <<"A", 1>>, <<"N", 1>>, <<"A", 2>>,
    <<"N", 56>>, <<"D", 54>>, <<"A", 6>>, <<"N", 992>>, <<"A", 62>>,
    <<"D", 56>>, <<"N", 349>>, <<"D", 12>>, <<"A", 27>>, <<"D", 1>>,
    <<"A", 1>>, <<"N", 239>>, <<"A", 24>>, <<"D", 1>>, <<"A", 1>>,
    <<"D", 1>>, <<"N", 115>>, <<"A", 18>>, <<"D", 39>>, <<"N", 58>>,
    <<"A", 29>>, <<"N", 1>>, <<"A", 2>>, <<"N", 69>>, <<"D", 60>>,
    <<"A", 46>>, <<"N", 126>>
>>

Repeat(key, n) == [j \in 1..n |-> key]

RECURSIVE Expand(_, _)
Expand(runs, i) ==
    IF i > Len(runs) THEN <<>>
    ELSE Repeat(runs[i][1], runs[i][2]) \o Expand(runs, i + 1)

\* the key polled in each frame of the session
KeyScript == Expand(KeyRuns, 1)

ReplayPlay ==
    /\ cursor < Len(KeyScript)
    /\ Play(KeyScript[cursor + 1] = "A", KeyScript[cursor + 1] = "D")
    /\ ticks' = ticks + 1
    /\ cursor' = cursor + 1
    /\ UNCHANGED probe

ReplayIdle ==
    /\ cursor < Len(KeyScript)
    /\ KeyScript[cursor + 1] # "R"
    /\ Idle
    /\ cursor' = cursor + 1
    /\ UNCHANGED <<ticks, probe>>

ReplayRestart ==
    /\ cursor < Len(KeyScript)
    /\ KeyScript[cursor + 1] = "R"
    /\ Restart
    /\ ticks' = 0
    /\ cursor' = cursor + 1
    /\ UNCHANGED probe

ReplayNext == ReplayPlay \/ ReplayIdle \/ ReplayRestart

ReplaySpec == Init /\ [][ReplayNext]_vars

---------------------------------------------------------------------------
(* PaddleHitSpec: the callback loop of Collision.check run on its own for  *)
(* other = the paddle, from the state after construction with the paddle  *)
(* and the ball placed at chosen positions.  The ball is placed at whole   *)
(* multiples of 6 pixels from the paddle centre, from 36 left of it to 30  *)
(* right of it.                                                            *)

PaddleXs == {0, 96, PaddleStartX, 400, ScreenWidth - PaddleWidth}
HitOffsets == {6 * j : j \in -6..5}

PaddleHitInit ==
    /\ \E px \in PaddleXs, k \in HitOffsets,
          dx0 \in {BallStartDx, -BallStartDx}, dy0 \in {BallStartDy, -BallStartDy} :
            /\ paddle = [x |-> px, y |-> PaddleStartY]
            /\ ball = [x |-> (px + PaddleWidth \div 2 + k) * Unit, y |-> 344,
                       dx |-> dx0 * Unit, dy |-> dy0]
    /\ blocks = [i \in 1..NumBlocks |-> TRUE]
    /\ score = 0
    /\ logics = <<FALSE>>
    /\ callbacks = listen([ball |-> <<>>, dead_zone |-> <<>>], 1)
    /\ ticks = 0
    /\ cursor = 0
    /\ probe = NoProbe

\* for callback in self.callbacks: callback(paddle)
PaddleHit ==
    /\ cursor = 0
    /\ SetWorld(RunCallbacks(callbacks.ball, 1, PaddleEnt, World))
    /\ cursor' = 1
    /\ UNCHANGED <<callbacks, ticks, probe>>

PaddleHitSpec == PaddleHitInit /\ [][PaddleHit]_vars

---------------------------------------------------------------------------
(* AabbSpec: check_aabb_collision applied on its own to two rectangles of  *)
(* positive size on a small grid.                                          *)

\* largest coordinate and largest side of the rectangles tried
MaxCoord == 3
MaxSide == 2

Rects == [x : 0..MaxCoord, y : 0..MaxCoord, width : 1..MaxSide, height : 1..MaxSide]

AabbInit ==
    /\ Constructed
    /\ \E a \in Rects, b \in Rects :
        probe = [fn |-> "check_aabb_collision", a |-> a, b |-> b,
                 done |-> FALSE, out |-> FALSE]

\* a.check_aabb_collision(b)
ApplyAabb ==
    /\ probe.fn = "check_aabb_collision"
    /\ ~probe.done
    /\ probe' = [probe EXCEPT !.done = TRUE,
                              !.out = check_aabb_collision(probe.a, probe.b)]
    /\ UNCHANGED <<gvars, ticks, cursor>>

AabbSpec == AabbInit /\ [][ApplyAabb]_vars

---------------------------------------------------------------------------
(* InputSpec: Paddle.update applied on its own, for every state of the A   *)
(* and D keys and every even paddle.x on the screen.                       *)

ProbeXs == {x \in 0..(ScreenWidth - PaddleWidth) : x % 2 = 0}

InputInit ==
    /\ Constructed
    /\ \E left \in BOOLEAN, right \in BOOLEAN, x \in ProbeXs :
        probe = [fn |-> "Paddle.update", left |-> left, right |-> right,
                 x |-> x, done |-> FALSE, dir |-> 0, out |-> x]

\* direction = Input.direction(); the move and the clamp
ApplyInput ==
    /\ probe.fn = "Paddle.update"
    /\ ~probe.done
    /\ probe' = [probe EXCEPT
            !.done = TRUE,
            !.dir = direction(probe.left, probe.right),
            !.out = PaddleUpdate([x |-> probe.x, y |-> PaddleStartY],
                                 direction(probe.left, probe.right)).x]
    /\ UNCHANGED <<gvars, ticks, cursor>>

InputSpec == InputInit /\ [][ApplyInput]_vars

---------------------------------------------------------------------------
(* Properties *)

Abs(n) == IF n < 0 THEN -n ELSE n
Inactive == {i \in 1..NumBlocks : ~blocks[i]}
BallAtStart ==
    ball = [x |-> BallStartX * Unit, y |-> BallStartY,
            dx |-> BallStartDx * Unit, dy |-> BallStartDy]

\* C1: in every frame played in which the ball overlaps the paddle at the
\* collision pass, dy after the pass is the negation of dy before it, in
\* the first game and in every game started by a restart.
C1_PaddleHitNegatesDy ==
    [][(Playing /\ Overlaps(BallEnt, PaddleEnt, World))
        => /\ CollisionPass(callbacks, World).ball.dy = -ball.dy
           /\ ball'.dy = -ball.dy]_vars

\* C2: a frame played that deactivates the last active block leaves
\* BreakOut.logic.game_over set, in the first game and after restarts; in
\* the first game the score is then 5000.
C2_LastBlockEndsGame ==
    [][(Playing /\ Inactive # 1..NumBlocks /\ \A i \in 1..NumBlocks : ~blocks'[i])
        => /\ logics'[Len(logics')]
           /\ Len(logics') = 1 => score' = BlockPoints * NumBlocks]_vars

\* C3: in every frame at most one block changes from active to inactive,
\* and dy is negated once for it.
C3_OneBlockPerTick ==
    [][Cardinality({i \in 1..NumBlocks : blocks[i] /\ ~blocks'[i]}) <= 1]_vars

\* C4: the paddle stays on the screen: 0 <= paddle.x <= 600 - 60.
C4_PaddleOnScreen ==
    /\ 0 <= paddle.x
    /\ paddle.x <= ScreenWidth - PaddleWidth

\* the paddle has been clamped at the left edge, and at the right edge after
\* a restart (neither edge is a multiple of the speed away from the start)
C4_Witness ==
    \/ paddle.x = 0
    \/ paddle.x = ScreenWidth - PaddleWidth /\ Len(logics) > 1

\* C5: a frame played in which the ball overlaps the dead zone at the
\* collision pass ends with BreakOut.logic.game_over set.
C5_DeadZoneEndsGame ==
    [][(Playing /\ Overlaps(BallEnt, DeadZoneEnt, World))
        => logics'[Len(logics')]]_vars

\* the game was ended by the dead zone: the ball is inside it
C5_Witness ==
    /\ GameOver
    /\ Overlaps(BallEnt, DeadZoneEnt, World)
    /\ Inactive # 1..NumBlocks

\* C6: a frame that begins in game over and constructs no new GameLogic (R
\* not pressed) changes nothing: ball, paddle, blocks, score, game_over.
C6_GameOverFreezes ==
    [][(GameOver /\ Len(logics') = Len(logics)) => UNCHANGED gvars]_vars

\* a game over reached by play, from which the frames without R start
C6_Witness ==
    /\ GameOver
    /\ ticks > 0

\* C7: game over is left only by the restart (a new GameLogic is
\* constructed), and then score = 0, all blocks are active, the ball is at
\* (300, 300) with velocity (4, -4), paddle.y = 350 and paddle.x is kept.
C7_RestartResets ==
    [][(GameOver /\ ~logics'[Len(logics')])
        => /\ Len(logics') = Len(logics) + 1
           /\ score' = 0
           /\ \A i \in 1..NumBlocks : blocks'[i]
           /\ ball' = [x |-> BallStartX * Unit, y |-> BallStartY,
                       dx |-> BallStartDx * Unit, dy |-> BallStartDy]
           /\ paddle'.y = PaddleStartY
           /\ paddle'.x = paddle.x]_vars

\* right after a restart, with the paddle where the lost game left it
C7_Witness ==
    /\ Len(logics) > 1
    /\ Playing
    /\ ticks = 0
    /\ BallAtStart
    /\ score = 0
    /\ paddle.x # PaddleStartX

C10_DxAtMostFive == Abs(ball.dx) <= MaxOffsetSpeed * Unit

C12_NoSelfCollision ==
    \A i \in 1..Len(Collisions) :
        \A k \in 1..Len(Reported(Collisions[i], callbacks, World)) :
            Reported(Collisions[i], callbacks, World)[k] # Collisions[i]

\* C13: in a frame played, Ball.update negates dx exactly when the advanced
\* ball's box (x .. x + 8) crosses the left (x < 0) or the right
\* (x + 8 > 600) screen edge, negates dy when the box crosses the top edge
\* (y < 0), and does not bounce at the bottom edge.
C13_WallBounce ==
    [][(Playing /\ ticks' = ticks + 1)
        => LET b == CollisionPass(callbacks, World).ball
               crossX == \/ ball'.x < 0
                         \/ ball'.x + BallSize * Unit > ScreenWidth * Unit
               crossTop == ball'.y < 0
           IN  /\ crossX => ball'.dx = -b.dx
               /\ ~crossX => ball'.dx = b.dx
               /\ crossTop => ball'.dy = -b.dy
               /\ (~crossTop /\ ball'.y >= BallRadius) => ball'.dy = b.dy]_vars

\* C14: a block that is inactive at the collision pass has no effect: the
\* callbacks invoked for it change nothing, whatever the ball's position;
\* in a frame played it stays inactive, the score rises by 100 for each
\* block deactivated in the frame only, and with no paddle and no active
\* block under the ball dy and the score are as before the pass and the
\* game state changes only for the dead zone; a restart sets every block
\* back to active.
C14_InactiveBlockNoEffect ==
    [][/\ \A i \in 1..NumBlocks :
            ~blocks[i] =>
                RunCallbacks(callbacks.ball, 1, BlockEnt(i), World) = World
       /\ (Playing /\ ticks' = ticks + 1)
            => LET w1 == CollisionPass(callbacks, World)
                   newly == {i \in 1..NumBlocks : blocks[i] /\ ~blocks'[i]}
               IN  /\ \A i \in 1..NumBlocks : ~blocks[i] => ~blocks'[i]
                   /\ score' = score + BlockPoints * Cardinality(newly)
                   /\ (/\ ~Overlaps(BallEnt, PaddleEnt, World)
                       /\ \A i \in 1..NumBlocks :
                            Overlaps(BallEnt, BlockEnt(i), World) => ~blocks[i])
                        => /\ w1.ball.dy = ball.dy
                           /\ score' = score
                           /\ logics' # logics
                                => Overlaps(DeadZoneEnt, BallEnt, World)
       /\ (GameOver /\ Len(logics') > Len(logics))
            => \A i \in 1..NumBlocks : blocks'[i]]_vars

\* the ball is over an inactive block, and was over it at the collision
\* pass of the frame just played
C14_Witness ==
    /\ Playing
    /\ ticks > 0
    /\ \E i \in 1..NumBlocks :
        /\ ~blocks[i]
        /\ Overlaps(BallEnt, BlockEnt(i), World)
        /\ check_aabb_collision(
                [Rect(BallEnt, World) EXCEPT !.x = @ - ball.dx, !.y = @ - ball.dy],
                Rect(BlockEnt(i), World))

\* width and height of the intersection of two rectangles (negative when
\* they are apart)
IntersectionWidth(a, b) == Min(a.x + a.width, b.x + b.width) - Max(a.x, b.x)
IntersectionHeight(a, b) == Min(a.y + a.height, b.y + b.height) - Max(a.y, b.y)

\* C15: check_aabb_collision(a, b) is true exactly when a and b intersect
\* with positive area; it is symmetric, false for rectangles that share
\* only a boundary edge or corner, and true for a rectangle of positive
\* size against itself.
C15_AabbPositiveArea ==
    (probe.fn = "check_aabb_collision" /\ probe.done)
        => LET a == probe.a
               b == probe.b
               iw == IntersectionWidth(a, b)
               ih == IntersectionHeight(a, b)
           IN  /\ probe.out = (iw > 0 /\ ih > 0)
               /\ probe.out = check_aabb_collision(b, a)
               /\ (iw >= 0 /\ ih >= 0 /\ (iw = 0 \/ ih = 0)) => ~probe.out
               /\ a = b => probe.out

\* two rectangles side by side that share an edge were tested
C15_Witness ==
    /\ probe.fn = "check_aabb_collision"
    /\ probe.done
    /\ probe.a.x + probe.a.width = probe.b.x
    /\ IntersectionHeight(probe.a, probe.b) > 0
    /\ ~probe.out

\* C16: reset is idempotent: in every reachable state, for every GameLogic,
\* reset called twice in a row leaves the same score, ball, paddle, block
\* flags and game_over flags as reset called once.
C16_ResetIdempotent ==
    \A owner \in 1..Len(logics) :
        reset(reset(World, owner), owner) = reset(World, owner)

\* the state a restart's reset has just produced, with the paddle where the
\* game before left it: another reset leaves it as it is
C16_Witness ==
    /\ Len(logics) = 2
    /\ ticks = 0
    /\ paddle.x # PaddleStartX
    /\ reset(World, 2) = World

\* C17: Input.direction is -1 whenever left is held (also with right held),
\* 1 when only right is held and 0 when neither is, and Paddle.update moves
\* the paddle by direction * 8 and then clamps it to the screen.
C17_DirectionAndMove ==
    (probe.fn = "Paddle.update" /\ probe.done)
        => LET moved == probe.x + probe.dir * PaddleSpeed
           IN  /\ probe.dir \in {-1, 0, 1}
               /\ probe.left => probe.dir = -1
               /\ (~probe.left /\ probe.right) => probe.dir = 1
               /\ (~probe.left /\ ~probe.right) => probe.dir = 0
               /\ probe.out = IF moved < 0 THEN 0
                              ELSE IF moved > ScreenWidth - PaddleWidth
                                   THEN ScreenWidth - PaddleWidth
                                   ELSE moved

\* both keys held: the paddle has moved left
C17_Witness ==
    /\ probe.fn = "Paddle.update"
    /\ probe.done
    /\ probe.left /\ probe.right
    /\ probe.dir = -1
    /\ probe.out = probe.x - PaddleSpeed

\* C18: BreakOut.logic.game_over changes from False to True only in a frame
\* whose collision pass finds the ball overlapping the dead zone, or in
\* which the last active block is deactivated.
C18_GameOverCauses ==
    [][(Playing /\ Len(logics') = Len(logics) /\ logics'[Len(logics')])
        => \/ Overlaps(DeadZoneEnt, BallEnt, World)
           \/ /\ Inactive # 1..NumBlocks
              /\ \A i \in 1..NumBlocks : ~blocks'[i]]_vars

\* the first game won: game over with every block inactive and the ball
\* far from the dead zone
C18_Witness ==
    /\ logics = <<TRUE>>
    /\ Inactive = 1..NumBlocks
    /\ score = BlockPoints * NumBlocks
    /\ ~Overlaps(DeadZoneEnt, BallEnt, World)

\* C19: in every reachable state dy is 4 or -4 and ball.y is a multiple
\* of 4.
C19_VerticalSpeedFour ==
    /\ Abs(ball.dy) = Abs(BallStartDy)
    /\ ball.y % Abs(BallStartDy) = 0

\* the third game, after paddle hits, block hits, a frame with two blocks
\* hit and restarts: the ball has just bounced off the top wall
C19_Witness ==
    /\ Len(logics) = 3
    /\ Playing
    /\ score > 0
    /\ ball.y < BallRadius
    /\ ball.dy = -BallStartDy

\* C20: the ball cannot pass the dead zone undetected: ball.y < 400 in
\* every reachable state, and ball.y <= 388 in every state in which the
\* game is Playing (388 is the first y at which the ball's box, y .. y + 8,
\* overlaps the dead zone, which starts at 395).
C20_DeadZoneCatchesBall ==
    /\ ball.y < ScreenHeight
    /\ Playing => ball.y <= ScreenHeight - DeadZoneHeight - BallSize + 1

===========================================================================
